---- MODULE Spec2Model ----
(***************************************************************************)
(* SolverKKT (src/src/core/solvers/kkt.cpp): the solve loop with its       *)
(* regularization and line search (specification Spec), and the index      *)
(* arithmetic of calc, computeDirection and tryStep on the stacked KKT     *)
(* system (specification SpecData).                                        *)
(*                                                                         *)
(* Numbers.  Regularization values are decimals m * 10^e, written <<m, e>> *)
(* with m in 0..9 (<<0, 0>> is zero); products and quotients by regfactor_ *)
(* are exact.  A step length 1/2^n is written by its denominator 2^n.      *)
(* Costs, the expected-improvement pair d_ and the stopping value are      *)
(* integers.                                                               *)
(***************************************************************************)
EXTENDS Integers, Sequences, FiniteSets, TLC

\* ------------------------------------------------------------------ bounds
MaxIter == 3        \* largest maxiter argument of solve
MaxCalls == 2       \* solve calls on one solver instance
MaxT == 2           \* largest horizon of the problem (SpecData)
MaxDim == 2         \* largest per-stage tangent / control dimension (SpecData)

\* ------------------------------------------------------- program constants
n_alphas == 10
regfactor_ == 10
regmin_ == <<1, -9>>
regmax_ == <<1, 9>>
th_step_den == 2                 \* th_step_ = 0.5 = 1 / th_step_den
th_acceptstep_num == 1           \* th_acceptstep_ = 0.1 (SolverAbstract)
th_acceptstep_den == 10

NaN == "NaN"

RECURSIVE Pow2(_)
Pow2(n) == IF n = 0 THEN 1 ELSE 2 * Pow2(n - 1)

\* alphas_[n] = 1 / 2^n, n = 0 .. n_alphas-1, held by denominator (1-indexed)
alphas_ == [n \in 1..n_alphas |-> Pow2(n - 1)]

\* -------------------------------------------------------- decimal numbers
RECURSIVE Norm(_, _)
Norm(m, e) == IF m = 0 THEN <<0, 0>>
              ELSE IF m % 10 = 0 THEN Norm(m \div 10, e + 1)
              ELSE <<m, e>>

RegLess(a, b) == IF a[1] = 0 THEN b[1] > 0
                 ELSE IF b[1] = 0 THEN FALSE
                 ELSE a[2] < b[2] \/ (a[2] = b[2] /\ a[1] < b[1])

RegTimes(r, f) == Norm(r[1] * f, r[2])
RegOver(r, f) == Norm((r[1] * 10) \div f, r[2] - 1)

\* ----------------------------------------------- the operations of solve
\* solve, lines 170-176: the initial regularization
InitReg(reginit) == IF reginit = NaN THEN <<0, 0>> ELSE reginit

\* increaseRegularization: xreg_ *= regfactor_, capped at regmax_
IncreaseReg(r) == LET x == RegTimes(r, regfactor_)
                  IN IF RegLess(regmax_, x) THEN regmax_ ELSE x

\* decreaseRegularization: xreg_ /= regfactor_, floored at regmin_
DecreaseReg(r) == LET x == RegOver(r, regfactor_)
                  IN IF RegLess(x, regmin_) THEN regmin_ ELSE x

\* d_[0] < th_grad_ with th_grad_ = 1e-12 and an integral d_[0]
BelowThGrad(d0) == d0 < 1

\* dV_ > th_acceptstep_ * dVexp_ where dVexp_ = a * (d0 + 0.5 * a * d1) and
\* a = 1/den: both sides multiplied by th_acceptstep_den * 2 * den^2
SufficientDecrease(dV, d, den) ==
  dV * th_acceptstep_den * 2 * den * den > th_acceptstep_num * (2 * den * d[1] + d[2])

\* line 206 without the !is_feasible_ disjunct
AcceptStep_FeasDropped(d, feas, dV, den) ==
  BelowThGrad(d[1]) \/ SufficientDecrease(dV, d, den)

\* line 206
AcceptStep(d, feas, dV, den) ==
  BelowThGrad(d[1]) \/ ~feas \/ SufficientDecrease(dV, d, den)

\* line 214: steplength_ > th_step_
AboveThStep(den) == den < th_step_den

\* line 217: steplength_ == alphas_.back()
IsLastAlpha(den) == den = alphas_[n_alphas]

\* stop_ < th_stop_ for an integral, non-negative stop_
BelowThStop(s) == s < 1

\* line 233 without the was_feasible_ conjunct
Converged_StopOnly(wf, s) == BelowThStop(s)

\* line 233
Converged(wf, s) == wf /\ BelowThStop(s)

\* line 178: the loop test
LoopGuard(i, mx) == i < mx

\* ------------------------------------------------------------- the state
VARIABLES
  \* solve's position and result
  pc,             \* "idle", "direction", "linesearch", "post", "done"
  ret,            \* "none" while solve runs, then "true" / "false"
  ret_at,         \* source line of the return statement taken (0: none yet)
  calls,          \* solve calls made on this instance
  maxiter,        \* argument of the running solve call
  \* fields of the solver
  iter_, xreg_, ureg_, is_feasible_, was_feasible_,
  steplength_,    \* denominator of the step length
  d_, dV_, cost_, cost_try_, stop_,
  llt_info,       \* kkt_llt_.info(): "None", "Success", "NumericalIssue"
  primal_, dual_, dxs_, dus_, lambdas_,
  xs_, us_, xs_try_, us_try_,
  kkt_blocks, kktref_segs,   \* blocks / segments written by the last calc()
  \* locals of solve
  recalc,
  it,             \* index into alphas_ of the line search iterator
  \* identity of the trajectory held in (xs_, us_) and (xs_try_, us_try_)
  \* during solve: <<iteration, alpha index>> of the trial that formed it
  cand, cand_try,
  \* the problem
  T, ndxs, nus,
  \* position of the data-level run (SpecData)
  dpc,
  \* history of the running solve call
  h_accepted,     \* a step was accepted in the current iteration
  h_acc_feas,     \* a step was accepted from a feasible candidate in this call
  h_all_failed,   \* every trial evaluation of this call has failed so far
  h_try_ok        \* the latest tryStep returned (its cost evaluation did not throw)

ctl == <<pc, ret, ret_at, calls, maxiter, iter_, xreg_, ureg_, is_feasible_,
         was_feasible_, steplength_, d_, dV_, cost_, cost_try_, stop_,
         recalc, it, cand, cand_try, h_accepted, h_acc_feas, h_all_failed,
         h_try_ok>>
dirv == <<llt_info, primal_, dual_, dxs_, dus_, lambdas_>>
trajv == <<xs_, us_, xs_try_, us_try_>>
kktv == <<kkt_blocks, kktref_segs>>
prob == <<T, ndxs, nus>>
data == <<dirv, trajv, kktv, prob, dpc>>
vars == <<ctl, data>>

\* ------------------------------------------ what the collaborators return
Costs == {0, 1}                  \* problem_.calcDiff / problem_.calc
DPairs == {<<0, 0>>, <<1, -2>>, <<1, 0>>}   \* expectedImprovement: <<d_[0], d_[1]>>
Stops == {0, 1}                  \* stoppingCriteria
RegInits == {NaN, <<1, -9>>, <<1, 8>>, <<5, 8>>, <<1, 9>>}

InitialCand == <<-1, 0>>         \* the init_xs / init_us given to solve
AllocCand == <<-2, 0>>           \* xs_try_ / us_try_ as allocateData leaves them

\* ------------------------------------------------------ the solver (Spec)
\* Constructor, lines 13-29 (fields of SolverAbstract hold their defaults)
CtlInit ==
  /\ pc = "idle" /\ ret = "none" /\ ret_at = 0 /\ calls = 0 /\ maxiter = 0
  /\ iter_ = 0 /\ xreg_ = NaN /\ ureg_ = NaN
  /\ is_feasible_ = FALSE /\ was_feasible_ = FALSE
  /\ steplength_ = 1 /\ d_ = <<0, 0>> /\ dV_ = 0 /\ cost_ = 0 /\ cost_try_ = 0
  /\ stop_ = 0 /\ recalc = TRUE /\ it = 1
  /\ cand = InitialCand /\ cand_try = AllocCand
  /\ h_accepted = FALSE /\ h_acc_feas = FALSE /\ h_all_failed = TRUE
  /\ h_try_ok = FALSE

\* a return statement of solve
Return(val, line) == pc' = "done" /\ ret' = val /\ ret_at' = line

\* solve, lines 167-178: setCandidate, the initial regularization, and the
\* first test of the iteration loop
Solve ==
  /\ pc \in {"idle", "done"}
  /\ calls < MaxCalls
  /\ calls' = calls + 1
  /\ \E mx \in 0..MaxIter, feas \in BOOLEAN, reginit \in RegInits :
       /\ maxiter' = mx
       /\ is_feasible_' = feas
       /\ cand' = InitialCand
       /\ xreg_' = InitReg(reginit)
       /\ ureg_' = InitReg(reginit)
       /\ iter_' = 0
       /\ IF LoopGuard(0, mx)
          THEN pc' = "direction" /\ ret' = "none" /\ ret_at' = 0
          ELSE Return("false", 237)
  /\ recalc' = TRUE
  /\ h_accepted' = FALSE /\ h_acc_feas' = FALSE /\ h_all_failed' = TRUE
  /\ UNCHANGED <<was_feasible_, steplength_, d_, dV_, cost_, cost_try_, stop_,
                 it, cand_try, h_try_ok, data>>

\* lines 180-194: one pass of the while(true) loop.  computeDirection(recalc)
\* calls calc() when recalc holds, and problem_.calcDiff may throw; then
\* computePrimalDual, which has no throw statement, and the slicing.  A
\* completed pass breaks out of the loop and runs expectedImprovement.
ComputeDirection ==
  /\ pc = "direction"
  /\ \/ /\ recalc                       \* calc() throws: the catch block
        /\ recalc' = FALSE
        /\ IF xreg_ = regmax_
           THEN Return("false", 186)
           ELSE UNCHANGED <<pc, ret, ret_at>>
        /\ UNCHANGED <<cost_, d_, it>>
     \/ /\ \E c \in (IF recalc THEN Costs ELSE {cost_}), d \in DPairs :
             cost_' = c /\ d_' = d
        /\ pc' = "linesearch"
        /\ it' = 1
        /\ UNCHANGED <<recalc, ret, ret_at>>
  /\ UNCHANGED <<calls, maxiter, iter_, xreg_, ureg_, is_feasible_, was_feasible_,
                 steplength_, dV_, cost_try_, stop_, cand, cand_try,
                 h_accepted, h_acc_feas, h_all_failed, h_try_ok, data>>

\* the for loop of line 196 moves on: ++it, and leaves at alphas_.end()
NextAlpha ==
  IF it < n_alphas THEN it' = it + 1 /\ pc' = "linesearch"
  ELSE it' = it /\ pc' = "post"

\* lines 196-212: one candidate step length
LineSearchStep ==
  /\ pc = "linesearch"
  /\ steplength_' = alphas_[it]
  /\ cand_try' = <<iter_, it>>          \* tryStep forms the trial trajectory
  /\ \/ /\ NextAlpha                    \* problem_.calc throws: continue
        /\ h_try_ok' = FALSE
        /\ UNCHANGED <<dV_, cost_, cost_try_, was_feasible_, is_feasible_, cand,
                       h_accepted, h_acc_feas, h_all_failed>>
     \/ \E c \in Costs :
          /\ cost_try_' = c
          /\ dV_' = cost_ - c
          /\ h_all_failed' = FALSE
          /\ h_try_ok' = TRUE
          /\ IF AcceptStep(d_, is_feasible_, cost_ - c, alphas_[it])
             THEN /\ was_feasible_' = is_feasible_
                  /\ is_feasible_' = TRUE
                  /\ cand' = <<iter_, it>>
                  /\ cost_' = c
                  /\ h_accepted' = TRUE
                  /\ h_acc_feas' = (h_acc_feas \/ is_feasible_)
                  /\ pc' = "post" /\ it' = it
             ELSE /\ NextAlpha
                  /\ UNCHANGED <<was_feasible_, is_feasible_, cand, cost_,
                                 h_accepted, h_acc_feas>>
  /\ UNCHANGED <<ret, ret_at, calls, maxiter, iter_, xreg_, ureg_, d_, stop_,
                 recalc, data>>

\* lines 214-237: regularization update, stopping criterion, the test of
\* convergence, ++iter_ and the loop test (no callback is registered)
Post ==
  /\ pc = "post"
  /\ LET dec == AboveThStep(steplength_)
         inc == IsLastAlpha(steplength_)
         r1 == IF dec THEN DecreaseReg(xreg_) ELSE xreg_
         r2 == IF inc THEN IncreaseReg(r1) ELSE r1
     IN /\ xreg_' = r2
        /\ ureg_' = (IF dec \/ inc THEN r2 ELSE ureg_)
        /\ IF inc /\ r2 = regmax_
           THEN /\ Return("false", 220)
                /\ UNCHANGED <<stop_, iter_, recalc, h_accepted>>
           ELSE \E s \in Stops :
                  /\ stop_' = s
                  /\ IF Converged(was_feasible_, s)
                     THEN /\ Return("true", 234)
                          /\ UNCHANGED <<iter_, recalc, h_accepted>>
                     ELSE /\ iter_' = iter_ + 1
                          /\ recalc' = TRUE
                          /\ IF LoopGuard(iter_ + 1, maxiter)
                             THEN /\ pc' = "direction"
                                  /\ h_accepted' = FALSE
                                  /\ UNCHANGED <<ret, ret_at>>
                             ELSE /\ Return("false", 237)
                                  /\ UNCHANGED h_accepted
  /\ UNCHANGED <<calls, maxiter, is_feasible_, was_feasible_, steplength_, d_,
                 dV_, cost_, cost_try_, it, cand, cand_try, h_acc_feas,
                 h_all_failed, h_try_ok, data>>

\* --------------------------------------- the stacked KKT system (SpecData)
\* Offsets are 0-based as in the source; stage t is 0 .. T-1 and T is the
\* terminal stage.  ndxs[t + 1] is get_ndx() of stage t, nus[t + 1] its
\* get_nu().  An entry of the solution vector is written by the (1-based)
\* row of the KKT system it solves; after a factorization that did not
\* succeed the entry is meaningless and is written negated.
RECURSIVE Sum(_, _)
Sum(s, k) == IF k = 0 THEN 0 ELSE s[k] + Sum(s, k - 1)

Abs(x) == IF x < 0 THEN 0 - x ELSE x

\* allocateData, lines 265-292: the dimension aggregates
ndx_ == Sum(ndxs, Len(ndxs))
nu_ == Sum(nus, Len(nus))

\* the running offsets ix, iu at the head of loop iteration t
Ix(t) == Sum(ndxs, t)
Iu(t) == Sum(nus, t)

\* calc, line 41
cx0 == ndxs[1]

\* calc, lines 60, 61 and 65: first row of stage t's dynamics constraint
DynRow(t) == ndx_ + nu_ + cx0 + Ix(t)

Block(n, t, r, c, nr, nc) == [name |-> n, t |-> t, r |-> r, c |-> c, nr |-> nr, nc |-> nc]
Segment(n, t, r, nr) == [name |-> n, t |-> t, r |-> r, nr |-> nr]

\* calc, lines 43-73: the blocks of kkt_ it assigns
CalcBlocks ==
  {Block("I", 0, ndx_ + nu_, 0, ndx_, ndx_)}
  \cup UNION {
    {Block("Lxx", t, Ix(t), Ix(t), ndxs[t + 1], ndxs[t + 1]),
     Block("Lxu", t, Ix(t), ndx_ + Iu(t), ndxs[t + 1], nus[t + 1]),
     Block("LxuT", t, ndx_ + Iu(t), Ix(t), nus[t + 1], ndxs[t + 1]),
     Block("Luu", t, ndx_ + Iu(t), ndx_ + Iu(t), nus[t + 1], nus[t + 1]),
     Block("Fx", t, DynRow(t), Ix(t), ndxs[t + 1], ndxs[t + 1]),
     Block("Fu", t, DynRow(t), ndx_ + Iu(t), ndxs[t + 1], nus[t + 1])} : t \in 0..(T - 1)}
  \cup {Block("Lxx", T, Ix(T), Ix(T), ndxs[T + 1], ndxs[T + 1]),
        Block("JT", T, 0, ndx_ + nu_, ndx_ + nu_, ndx_)}

\* calc, lines 52-72: the segments of kktref_ it assigns
CalcSegments ==
  {Segment("x0gap", 0, ndx_ + nu_, ndxs[1])}
  \cup UNION {
    {Segment("Lx", t, Ix(t), ndxs[t + 1]),
     Segment("Lu", t, ndx_ + Iu(t), nus[t + 1]),
     Segment("gap", t, DynRow(t), ndxs[t + 1])} : t \in 0..(T - 1)}
  \cup {Segment("Lx", T, Ix(T), ndxs[T + 1])}

\* Eigen's v.segment(off, n)
Seg(v, off, n) == SubSeq(v, off + 1, off + n)

\* computePrimalDual, lines 86-88: primaldual_ after solveInPlace
SolveInPlace(info) ==
  [r \in 1..(2 * ndx_ + nu_) |-> IF info = "Success" THEN r ELSE 0 - r]

\* computePrimalDual, lines 89-90
PrimalOf(pd) == Seg(pd, 0, ndx_ + nu_)
DualOf(pd) == Seg(pd, ndx_ + nu_, ndx_)

\* computeDirection, lines 100-117
SliceDxs(p) == [t \in 1..(T + 1) |-> Seg(Seg(p, 0, ndx_), Ix(t - 1), ndxs[t])]
SliceDus(p) == [t \in 1..T |-> Seg(Seg(p, ndx_, nu_), Iu(t - 1), nus[t])]
SliceLambdas(du) == [t \in 1..(T + 1) |-> Seg(du, Ix(t - 1), ndxs[t])]

\* get_state().integrate on a vector space, and steplength * v with the
\* trajectory held in units of the smallest step length
Integrate(x, dx) == [i \in 1..Len(x) |-> x[i] + dx[i]]
Scale(den, v) == [i \in 1..Len(v) |-> v[i] * (alphas_[n_alphas] \div den)]

\* tryStep, lines 158-162: stage t of the loop writes xs_try_[t + 1]
TryXs(den) ==
  [t \in 1..(T + 1) |-> IF t = 1 THEN xs_try_[1]
                        ELSE Integrate(xs_[t - 1], Scale(den, dxs_[t - 1]))]
TryUs(den) ==
  [t \in 1..T |-> Integrate(us_[t], Scale(den, dus_[t]))]

Const(n, v) == [i \in 1..n |-> v]

\* allocateData, lines 256-311, and a candidate set by setCandidate
DataInitFor(T0, nd, nu, xv) ==
  /\ T = T0 /\ ndxs = nd /\ nus = nu
  /\ dpc = "alloc"
  /\ llt_info = "None"
  /\ primal_ = Const(Sum(nd, T0 + 1) + Sum(nu, T0), 0)
  /\ dual_ = Const(Sum(nd, T0 + 1), 0)
  /\ dxs_ = [t \in 1..(T0 + 1) |-> Const(nd[t], 0)]
  /\ dus_ = [t \in 1..T0 |-> Const(nu[t], 0)]
  /\ lambdas_ = [t \in 1..(T0 + 1) |-> Const(nd[t], 0)]
  /\ xs_try_ = [t \in 1..(T0 + 1) |->
                  IF t = 1 \/ t = T0 + 1 THEN Const(nd[t], 0) ELSE Const(nd[t], NaN)]
  /\ us_try_ = [t \in 1..T0 |-> Const(nu[t], NaN)]
  /\ xs_ = [t \in 1..(T0 + 1) |-> Const(nd[t], (xv + t) * alphas_[n_alphas])]
  /\ us_ = [t \in 1..T0 |-> Const(nu[t], 0)]
  /\ kkt_blocks = {} /\ kktref_segs = {}

XBases == {0, 1}

\* what the data-level operations leave alone
CtlRest == <<pc, ret, ret_at, calls, maxiter, iter_, xreg_, ureg_, is_feasible_,
             was_feasible_, d_, stop_, recalc, it, cand, cand_try,
             h_accepted, h_acc_feas, h_all_failed, h_try_ok>>

\* calc()
CalcData ==
  /\ dpc \in {"alloc", "assembled", "direction", "tried"}
  /\ kkt_blocks' = CalcBlocks
  /\ kktref_segs' = CalcSegments
  /\ \E c \in Costs : cost_' = c
  /\ dpc' = "assembled"
  /\ UNCHANGED <<dirv, trajv, prob, CtlRest, steplength_, cost_try_, dV_>>

\* computeDirection(recalc), lines 94-118
ComputeDirectionData ==
  /\ dpc \in {"alloc", "assembled", "direction", "tried"}
  /\ \E rc \in BOOLEAN, info \in {"Success", "NumericalIssue"} :
       /\ IF rc
          THEN /\ kkt_blocks' = CalcBlocks
               /\ kktref_segs' = CalcSegments
               /\ \E c \in Costs : cost_' = c
          ELSE UNCHANGED <<kktv, cost_>>
       /\ llt_info' = info
       /\ primal_' = PrimalOf(SolveInPlace(info))
       /\ dual_' = DualOf(SolveInPlace(info))
       /\ dxs_' = SliceDxs(primal_')
       /\ dus_' = SliceDus(primal_')
       /\ lambdas_' = SliceLambdas(dual_')
  /\ dpc' = "direction"          \* returns normally: there is no throw
  /\ UNCHANGED <<trajv, prob, CtlRest, steplength_, cost_try_, dV_>>

\* tryStep(steplength), lines 156-165; problem_.calc returns or throws
TryStepData ==
  /\ dpc \in {"direction", "tried"}
  /\ \E n \in 1..n_alphas :
       /\ steplength_' = alphas_[n]
       /\ xs_try_' = TryXs(alphas_[n])
       /\ us_try_' = TryUs(alphas_[n])
  /\ \/ \E c \in Costs : cost_try_' = c /\ dV_' = cost_ - c
     \/ UNCHANGED <<cost_try_, dV_>>
  /\ dpc' = "tried"
  /\ UNCHANGED <<xs_, us_, dirv, kktv, prob, cost_, CtlRest>>

\* ------------------------------------------------------ specifications
Init == CtlInit /\ DataInitFor(1, <<1, 1>>, <<1>>, 0)

Next == Solve \/ ComputeDirection \/ LineSearchStep \/ Post

Spec == Init /\ [][Next]_vars

InitData ==
  /\ CtlInit
  /\ \E T0 \in 1..MaxT :
       \E nd \in [1..(T0 + 1) -> 1..MaxDim], nu \in [1..T0 -> 1..MaxDim], xv \in XBases :
         DataInitFor(T0, nd, nu, xv)

NextData == CalcData \/ ComputeDirectionData \/ TryStepData

SpecData == InitData /\ [][NextData]_vars

\* ------------------------------------------------------------ the claims
InSolve == pc \in {"direction", "linesearch", "post"}

\* C1: solve performs at most maxiter iterations; it returns true only from
\* line 234, at the end of an iteration, with was_feasible_ true and
\* stop_ < th_stop_; every other way out (maxiter = 0 included) returns false.
C1_SolveReturns ==
  /\ iter_ <= maxiter
  /\ (InSolve => iter_ < maxiter /\ ret = "none")
  /\ (pc = "done" => ret \in {"true", "false"})
  /\ (ret = "true" => ret_at = 234 /\ iter_ < maxiter /\ was_feasible_ /\ stop_ < 1)
  /\ (ret = "false" => ret_at \in {186, 220, 237})
  /\ (ret_at = 237 => iter_ = maxiter)
  /\ (pc = "done" /\ maxiter = 0 => ret = "false")

C1_Witness == pc = "done" /\ ret = "true" /\ iter_ = MaxIter - 1

\* C2 (as claimed): a failure signalled by computeDirection is followed by a
\* retry with recalc = false under a strictly larger regularization, and
\* the return of line 186 is taken only with xreg_ at regmax_.
C2_EscalatesOnFailure ==
  [][/\ (pc = "direction" /\ pc' = "direction" =>
           ~recalc' /\ RegLess(xreg_, xreg_'))
     /\ (ret_at' = 186 /\ pc = "direction" => xreg_ = regmax_)]_vars

\* what the line-search test of the claim reads, with "at least"
C4_AtLeast(dV, d, den) ==
  dV * th_acceptstep_den * 2 * den * den >= th_acceptstep_num * (2 * den * d[1] + d[2])

\* and with the strict comparison
C4_Strictly(dV, d, den) ==
  dV * th_acceptstep_den * 2 * den * den > th_acceptstep_num * (2 * den * d[1] + d[2])

\* the parts of C4 that do not depend on the comparison: candidates are
\* taken in the order of alphas_, largest first; an accepted trial becomes
\* the candidate, marked feasible, its cost the current cost, was_feasible_
\* the flag before the step, and the scan stops; a candidate not accepted
\* changes none of these and the scan moves to the next smaller one.
C4_Scan ==
  /\ (pc = "direction" /\ pc' = "linesearch" => it' = 1)
  /\ (pc = "linesearch" =>
        /\ steplength_' = alphas_[it]
        /\ (it < n_alphas => alphas_[it] < alphas_[it + 1])
        /\ (h_try_ok' => dV_' = cost_ - cost_try_')
        /\ (h_accepted' =>
              /\ cand' = <<iter_, it>> /\ cand_try' = cand'
              /\ is_feasible_' /\ was_feasible_' = is_feasible_
              /\ cost_' = cost_try_'
              /\ pc' = "post" /\ it' = it)
        /\ (~h_accepted' =>
              /\ UNCHANGED <<cand, is_feasible_, was_feasible_, cost_>>
              /\ IF it < n_alphas THEN pc' = "linesearch" /\ it' = it + 1
                 ELSE pc' = "post"))

\* C4 (as claimed): the accepted step is the first candidate whose trial
\* evaluation succeeded and for which d_[0] < th_grad_, or the candidate is
\* not feasible, or dV_ is at least th_acceptstep_ times the predicted
\* decrease.
C4_AcceptAtLeast ==
  [][/\ C4_Scan
     /\ (pc = "linesearch" =>
           (h_accepted' <=>
              (h_try_ok' /\ (d_[1] < 1 \/ ~is_feasible_
                             \/ C4_AtLeast(dV_', d_, alphas_[it])))))]_vars

\* C4 (amended): the same with dV_ strictly greater than th_acceptstep_
\* times the predicted decrease.
C4_AcceptStrictly ==
  [][/\ C4_Scan
     /\ (pc = "linesearch" =>
           (h_accepted' <=>
              (h_try_ok' /\ (d_[1] < 1 \/ ~is_feasible_
                             \/ C4_Strictly(dV_', d_, alphas_[it])))))]_vars

\* a step accepted by the sufficient-decrease test alone, at a candidate
\* that is neither the first nor the last, after a failed trial evaluation
C4_Witness ==
  /\ pc = "post" /\ h_accepted /\ was_feasible_ /\ d_[1] >= 1
  /\ steplength_ > 1 /\ steplength_ < alphas_[n_alphas]
  /\ dV_ > 0

\* C5 (as claimed): a failed trial evaluation only moves the scan to the
\* next smaller step length, and the return of line 220 is taken only when
\* no step was accepted in the iteration and regularization is at regmax_.
C5_FailOnlyWhenExhausted ==
  [][/\ (pc = "linesearch" /\ ~h_try_ok' =>
           /\ UNCHANGED <<cand, cost_, is_feasible_, xreg_, ret>>
           /\ IF it < n_alphas THEN pc' = "linesearch" /\ it' = it + 1
              ELSE pc' = "post")
     /\ (pc = "post" /\ ret_at' = 220 =>
           ~h_accepted /\ IsLastAlpha(steplength_) /\ xreg_' = regmax_)]_vars

\* C6 (as claimed): while every trial evaluation of the call has failed, no
\* trial trajectory is adopted and each iteration ends either with a
\* strictly larger regularization or with solve returning false at regmax_.
C6_AllRejectingEscalates ==
  [][(pc = "post" /\ h_all_failed) =>
       /\ cand' = InitialCand /\ ~h_accepted
       /\ \/ RegLess(xreg_, xreg_')
          \/ (ret' = "false" /\ xreg_' = regmax_)]_vars

RegInRange(r) == r # NaN /\ ~RegLess(r, regmin_) /\ ~RegLess(regmax_, r)

\* C7 (as claimed): once solve has set the initial regularization, xreg_ and
\* ureg_ stay within [regmin_, regmax_].
C7_RegInRange == pc # "idle" => RegInRange(xreg_) /\ RegInRange(ureg_)

\* C10 (as claimed): solve returns true only after a step of the same call
\* was accepted from a feasible candidate.
C10_TrueNeedsOwnAcceptance == ret = "true" => h_acc_feas

\* ---------------------------------------------- the claims on the data
Range(v) == {v[i] : i \in 1..Len(v)}
Rows(r, nr) == {r + k : k \in 0..(nr - 1)}

RECURSIVE Concat(_, _)
Concat(vs, k) == IF k = 0 THEN <<>> ELSE Concat(vs, k - 1) \o vs[k]

\* C3 (as claimed): computeDirection returns normally only after a
\* factorization that succeeded, and no entry of primal_, dual_, dxs_, dus_
\* or lambdas_ comes from a factorization that did not.
C3_FailureSignalled ==
  /\ (dpc = "direction" => llt_info = "Success")
  /\ \A v \in {primal_, dual_} \cup Range(dxs_) \cup Range(dus_) \cup Range(lambdas_) :
       \A i \in 1..Len(v) : v[i] >= 0

\* C8 (as claimed): after calc and computeDirection, for every stage t the
\* rows of the Fx, Fu and gap blocks of stage t are the rows of the KKT
\* system held in lambdas_[t + 1]; the slices tile primal_ and dual_; and
\* every block and segment calc assigns lies inside the KKT system.
C8_OffsetsAgree ==
  (kkt_blocks # {} /\ llt_info # "None") =>
    /\ \A t \in 0..(T - 1) :
         /\ \A b \in kkt_blocks :
              (b.t = t /\ b.name \in {"Fx", "Fu"}) =>
                Rows(b.r, b.nr) = {Abs(l) - 1 : l \in Range(lambdas_[t + 2])}
         /\ \A g \in kktref_segs :
              (g.t = t /\ g.name = "gap") =>
                Rows(g.r, g.nr) = {Abs(l) - 1 : l \in Range(lambdas_[t + 2])}
    /\ Concat(dxs_, T + 1) \o Concat(dus_, T) = primal_
    /\ Concat(lambdas_, T + 1) = dual_
    /\ \A b \in kkt_blocks :
         b.r + b.nr <= 2 * ndx_ + nu_ /\ b.c + b.nc <= 2 * ndx_ + nu_
    /\ \A g \in kktref_segs : g.r + g.nr <= 2 * ndx_ + nu_

\* C9 (as claimed): after tryStep(alpha), xs_try_[t] is
\* integrate(xs_[t], alpha * dxs_[t]) for every t in 0..T and us_try_[t] is
\* us_[t] + alpha * dus_[t] for every t in 0..T-1.
C9_TrialAtMatchingIndices ==
  dpc = "tried" =>
    /\ \A t \in 1..(T + 1) :
         xs_try_[t] = Integrate(xs_[t], Scale(steplength_, dxs_[t]))
    /\ \A t \in 1..T :
         us_try_[t] = Integrate(us_[t], Scale(steplength_, dus_[t]))

====
